---- MODULE Spec2Model ----
(***************************************************************************)
(* Model of scripts/process_arxiv.py: the arXiv paper summarizer.  A run   *)
(* polls the Telegram inbox, filters the updates by chat, extracts an      *)
(* arXiv identifier, skips identifiers of the processed-papers ledger,     *)
(* fetches the paper, generates a summary, writes <id>/<id>.md, records    *)
(* the identifier in the ledger and notifies the chat.                     *)
(*                                                                         *)
(* External calls (Telegram, arXiv, Gemini, the file system) either return *)
(* or raise; which of the two is the environment's choice.  A write that   *)
(* raises is taken to fail before the file is opened, so it leaves the     *)
(* file as it was.  Runs do not overlap.                                   *)
(***************************************************************************)
EXTENDS Integers, Sequences, FiniteSets, TLC

\* ------------------------------------------------------------------------
\* Bounds of the model
\* ------------------------------------------------------------------------
MaxInbox == 2        \* updates pending in the bot's inbox
MaxRuns == 2         \* invocations of the script
MaxDay == 1          \* days the clock can advance
MaxParts == 3        \* pieces a text given to extract_arxiv_id is made of

\* ------------------------------------------------------------------------
\* Values
\* ------------------------------------------------------------------------
None == "<None>"     \* Python's None (os.getenv of an unset variable)

IdA == "2301.01234"
IdB == "2302.05678"
IDs == {IdA, IdB}

ChatIds == {1, 2}    \* message['chat']['id'] is an integer

Digit == <<"0", "1", "2", "3", "4", "5", "6", "7", "8", "9">>

\* str(chat_id) for an integer
RECURSIVE str(_)
str(n) ==
    IF n < 0 THEN "-" \o str(-n)
    ELSE IF n < 10 THEN Digit[n + 1]
    ELSE str(n \div 10) \o Digit[(n % 10) + 1]

\* A text is a sequence of one-character strings.
Range(s) == {s[k] : k \in DOMAIN s}

IsDigit(c) == c \in Range(Digit)

\* the characters of a list joined into one string
RECURSIVE Join(_)
Join(chars) ==
    IF chars = <<>> THEN "" ELSE Head(chars) \o Join(Tail(chars))

AbsPrefix == <<"a", "r", "x", "i", "v", ".", "o", "r", "g", "/", "a", "b", "s", "/">>
PdfPrefix == <<"a", "r", "x", "i", "v", ".", "o", "r", "g", "/", "p", "d", "f", "/">>

\* a repetition of \d: at least lo times; at most hi times when bounded
Rep(lo, bounded, hi) == [lo |-> lo, bounded |-> bounded, hi |-> hi]
OneOrMore == Rep(1, FALSE, 0)

\* a pattern: a literal prefix, then the group (digits, a dot, digits)
Pattern(prefix, before, after) ==
    [prefix |-> prefix, before |-> before, after |-> after]

\* the three regular expressions with the bare form tried first
patterns_bare_first ==
    << Pattern(<<>>, Rep(4, TRUE, 4), Rep(4, TRUE, 5)),
       Pattern(AbsPrefix, OneOrMore, OneOrMore),
       Pattern(PdfPrefix, OneOrMore, OneOrMore) >>

\* the three regular expressions, in the order of the list:
\*   arxiv\.org/abs/(\d+\.\d+)   arxiv\.org/pdf/(\d+\.\d+)   (\d{4}\.\d{4,5})
patterns ==
    << Pattern(AbsPrefix, OneOrMore, OneOrMore),
       Pattern(PdfPrefix, OneOrMore, OneOrMore),
       Pattern(<<>>, Rep(4, TRUE, 4), Rep(4, TRUE, 5)) >>

\* the literal stands in the text at position p
LiteralAt(text, p, literal) ==
    /\ p + Len(literal) - 1 <= Len(text)
    /\ \A j \in DOMAIN literal : text[p + j - 1] = literal[j]

\* the number of digits that follow each other from position p on
RECURSIVE DigitRun(_, _)
DigitRun(text, p) ==
    IF p <= Len(text) /\ IsDigit(text[p]) THEN 1 + DigitRun(text, p + 1) ELSE 0

\* the most digits a repetition takes out of a run of n digits
Take(rep, n) == IF rep.bounded /\ n > rep.hi THEN rep.hi ELSE n

\* The match of the pattern that starts at position p: the text of group 1,
\* or <<>> when the pattern does not match there.  The digits before the dot
\* are followed by the dot, so the repetition takes the whole run; the
\* digits after it are taken greedily.
MatchAt(pattern, text, p) ==
    LET a == p + Len(pattern.prefix)
        n1 == DigitRun(text, a)
        k1 == Take(pattern.before, n1)
        b == a + k1 + 1
        n2 == DigitRun(text, b)
        k2 == Take(pattern.after, n2)
    IN  IF /\ LiteralAt(text, p, pattern.prefix)
           /\ k1 >= pattern.before.lo
           /\ a + k1 <= Len(text)
           /\ text[a + k1] = "."
           /\ k2 >= pattern.after.lo
        THEN SubSeq(text, a, b + k2 - 1)
        ELSE <<>>

\* re.search: group 1 of the leftmost match, <<>> when there is no match
RECURSIVE re_search(_, _, _)
re_search(pattern, text, p) ==
    IF p > Len(text) THEN <<>>
    ELSE IF MatchAt(pattern, text, p) # <<>> THEN MatchAt(pattern, text, p)
    ELSE re_search(pattern, text, p + 1)

\* the for loop of lines 68-72 from pattern number n on
RECURSIVE ExtractFrom(_, _)
ExtractFrom(text, n) ==
    IF n > Len(patterns) THEN None
    ELSE LET match == re_search(patterns[n], text, 1)
         IN  IF match # <<>> THEN Join(match) ELSE ExtractFrom(text, n + 1)

extract_arxiv_id(text) == ExtractFrom(text, 1)

IdAChars == <<"2", "3", "0", "1", ".", "0", "1", "2", "3", "4">>
IdBChars == <<"2", "3", "0", "2", ".", "0", "5", "6", "7", "8">>

\* the texts that messages of the inbox carry: no text, a link to paper A,
\* the bare identifier of paper B
InboxTexts ==
    { <<>>,
      AbsPrefix \o IdAChars,
      IdBChars }

\* an update of getUpdates: with or without a 'message' key
NoMessage == [has_message |-> FALSE, chat_id |-> 0, text |-> <<>>]
Message(c, t) == [has_message |-> TRUE, chat_id |-> c, text |-> t]

\* the updates that arrive: any text in chat 1, a link in chat 2
Updates ==
    {NoMessage, Message(2, AbsPrefix \o IdAChars)}
        \cup {Message(1, t) : t \in InboxTexts}

\* the five sections the prompt of generate_summary asks for (lines 93-97)
SectionHeaders ==
    << "Core Contribution", "Technical Approach", "Key Results & Ablations",
       "Important Citations", "Conclusion & Impact" >>

\* The texts Gemini may return, as lines: response.text is free text, so it
\* may follow the requested structure or not.
StructuredSummary == SectionHeaders
PlainSummary == <<"This paper proposes a method.">>
SummaryTexts == {StructuredSummary, PlainSummary}

\* the ledger file: absent, or a JSON array of identifiers
NoFile == [exists |-> FALSE, data |-> <<>>]
FileOf(list) == [exists |-> TRUE, data |-> list]

NoPaper == [short_id |-> "", title |-> ""]
NoContent == [title |-> "", arxiv_id |-> "", body |-> <<>>, generated_on |-> 0]

VARIABLES
    TELEGRAM_BOT_TOKEN, TELEGRAM_CHAT_ID, GEMINI_API_KEY,  \* configuration
    inbox,             \* updates pending at Telegram
    ledgerFile,        \* scripts/.processed_papers.json
    files,             \* <id>/<id>.md, a function from the ids that have one
    today,             \* the date of datetime.now()
    runs,              \* invocations started so far
    pc,                \* position of the script
    updates, processed_papers, new_papers_found,  \* locals of the run
    i,                 \* index of the update the for loop is at
    chat_id, paper_id, paper, markdown_content, err,  \* locals of the message
    trace,             \* external calls made for the current message
    ledger0, files0,   \* the ledger and the files when the message was taken
    succeeded,         \* ids for which save_processed_paper has returned
    extract_text, extract_result  \* an argument of extract_arxiv_id and what it returned

config == <<TELEGRAM_BOT_TOKEN, TELEGRAM_CHAT_ID, GEMINI_API_KEY>>
world == <<inbox, ledgerFile, files, today>>
runLocals == <<updates, processed_papers, new_papers_found>>
msgLocals == <<chat_id, paper_id, paper, markdown_content, err>>
ghost == <<ledger0, files0, succeeded>>
call == <<extract_text, extract_result>>
vars == <<config, world, runs, pc, runLocals, i, msgLocals, trace, ghost, call>>


\* ------------------------------------------------------------------------
\* Pure functions of the script
\* ------------------------------------------------------------------------

\* load_processed_papers: the list of the file, [] when the file is missing
load_processed_papers(file) == IF file.exists THEN file.data ELSE <<>>

\* save_processed_paper without the membership test
save_processed_paper_unchecked(file, id) ==
    FileOf(Append(load_processed_papers(file), id))

\* save_processed_paper putting the new identifier first
save_processed_paper_prepend(file, id) ==
    LET processed == load_processed_papers(file)
    IN  IF id \notin Range(processed)
        THEN FileOf(<<id>> \o processed)
        ELSE file

\* save_processed_paper that writes only to a ledger file that exists
save_processed_paper_existing(file, id) ==
    LET processed == load_processed_papers(file)
    IN  IF file.exists /\ id \notin Range(processed)
        THEN FileOf(Append(processed, id))
        ELSE file

\* save_processed_paper: reload, append when absent, rewrite the whole file
save_processed_paper(file, id) ==
    LET processed == load_processed_papers(file)
    IN  IF id \notin Range(processed)
        THEN FileOf(Append(processed, id))
        ELSE file

\* get_telegram_updates: the result list on status 200, [] otherwise
get_telegram_updates(status_code, result) ==
    IF status_code = 200 THEN result ELSE <<>>

\* the chat filter applied only when a chat is configured
FromConfiguredChat_optional(c, configured) ==
    configured = None \/ str(c) = configured

\* line 159, negated: the message comes from the configured chat
FromConfiguredChat(c, configured) == str(c) = configured

\* the dedup test looking at the last ledger entry only
AlreadyProcessed_last(id, processed) ==
    processed # <<>> /\ processed[Len(processed)] = id

\* line 169: the identifier is in the list loaded at the start of the run
AlreadyProcessed(id, processed) == id \in Range(processed)

\* arxiv.Search(id_list=[paper_id]): the record of the paper
PaperOf(id) == [short_id |-> id \o "v1", title |-> "Title of " \o id]

\* create_markdown_summary: front matter, generated body, generation date
create_markdown_summary(p, summary_text, date) ==
    [title |-> p.title, arxiv_id |-> p.short_id,
     body |-> summary_text, generated_on |-> date]

\* the lines of the document, as the f-string of lines 110-127 lays them out
DocumentLines(doc) ==
    << "# " \o doc.title, "**Authors:**", "**arXiv ID:** " \o doc.arxiv_id,
       "**Published:**", "**Link:** https://arxiv.org/abs/" \o doc.arxiv_id,
       "---" >>
        \o doc.body
        \o << "---", "*Summary generated on:*" >>

\* save_summary_to_file: open(<id>/<id>.md, 'w') and write the content
save_summary_to_file(fs, id, content) ==
    [x \in DOMAIN fs \cup {id} |-> IF x = id THEN content ELSE fs[x]]

\* one external call made for the current message
Event(op, ok, reason) ==
    [op |-> op, chat |-> chat_id, id |-> paper_id, ok |-> ok, reason |-> reason]

\* ------------------------------------------------------------------------
\* Initial state: first deployment, nothing processed yet
\* ------------------------------------------------------------------------
NotCalled == "<not called>"

InitPipeline ==
    /\ inbox = <<>>
    /\ ledgerFile = NoFile
    /\ files = <<>>
    /\ today = 0
    /\ runs = 0
    /\ pc = "idle"
    /\ updates = <<>>
    /\ processed_papers = <<>>
    /\ new_papers_found = FALSE
    /\ i = 0
    /\ chat_id = 0
    /\ paper_id = None
    /\ paper = NoPaper
    /\ markdown_content = NoContent
    /\ err = ""
    /\ trace = <<>>
    /\ ledger0 = NoFile
    /\ files0 = <<>>
    /\ succeeded = {}

Init ==
    /\ TELEGRAM_BOT_TOKEN \in {None, "token"}
    /\ TELEGRAM_CHAT_ID \in {None, "1"}
    /\ GEMINI_API_KEY \in {None, "key"}
    /\ InitPipeline
    /\ extract_text = <<>>
    /\ extract_result = NotCalled

NotRunning == pc \in {"idle", "done", "poll_error", "crashed"}

\* ------------------------------------------------------------------------
\* The environment between runs
\* ------------------------------------------------------------------------

\* somebody posts a message; Telegram keeps it pending for later polls
Arrive ==
    /\ NotRunning
    /\ Len(inbox) < MaxInbox
    /\ \E u \in Updates : inbox' = Append(inbox, u)
    /\ UNCHANGED <<call, config, ledgerFile, files, today, runs, pc, runLocals, i,
                   msgLocals, trace, ghost>>

\* a day passes
Tick ==
    /\ NotRunning
    /\ today < MaxDay
    /\ today' = today + 1
    /\ UNCHANGED <<call, config, inbox, ledgerFile, files, runs, pc, runLocals, i,
                   msgLocals, trace, ghost>>

\* ------------------------------------------------------------------------
\* One run of the script
\* ------------------------------------------------------------------------

ResetMsgLocals ==
    /\ chat_id' = 0
    /\ paper_id' = None
    /\ paper' = NoPaper
    /\ markdown_content' = NoContent
    /\ err' = ""

\* Module load (lines 16-25) and the head of process_new_papers (143-149).
\* Nothing checks the configuration.  requests.get raises or returns; with no
\* token the URL is .../botNone/getUpdates, which Telegram does not answer 200.
StartRun ==
    /\ NotRunning
    /\ runs < MaxRuns
    /\ runs' = runs + 1
    /\ ResetMsgLocals
    /\ trace' = <<>>
    /\ ledger0' = ledgerFile
    /\ files0' = files
    /\ UNCHANGED succeeded
    /\ new_papers_found' = FALSE
    /\ \/ \E status_code \in {200, 404} :
            /\ status_code = 200 => TELEGRAM_BOT_TOKEN # None
            /\ updates' = get_telegram_updates(status_code, inbox)
            /\ processed_papers' = load_processed_papers(ledgerFile)
            /\ i' = 1
            /\ pc' = "loop"
       \/ /\ updates' = <<>>
          /\ processed_papers' = <<>>
          /\ i' = 0
          /\ pc' = "poll_error"
    /\ UNCHANGED <<call, config, world>>

\* Lines 151-174: take the next update and decide whether to process it.
NextUpdate ==
    /\ pc = "loop"
    /\ i <= Len(updates)
    /\ trace' = <<>>
    /\ ledger0' = ledgerFile
    /\ files0' = files
    /\ UNCHANGED succeeded
    /\ LET update == updates[i]
           id == extract_arxiv_id(update.text)
       IN  IF /\ update.has_message
              /\ FromConfiguredChat(update.chat_id, TELEGRAM_CHAT_ID)
              /\ id # None
              /\ ~AlreadyProcessed(id, processed_papers)
           THEN /\ chat_id' = update.chat_id
                /\ paper_id' = id
                /\ paper' = NoPaper
                /\ markdown_content' = NoContent
                /\ err' = ""
                /\ new_papers_found' = TRUE
                /\ pc' = "send_start"
                /\ i' = i
           ELSE /\ ResetMsgLocals
                /\ i' = i + 1
                /\ pc' = "loop"
                /\ UNCHANGED new_papers_found
    /\ UNCHANGED <<call, config, world, runs, updates, processed_papers>>

\* an exception that is dropped: the loop goes on without the handler
Raise_swallowed(e) ==
    /\ err' = e
    /\ pc' = "loop"

\* an exception raised inside the try block reaches the handler of line 210
Raise(e) ==
    /\ err' = e
    /\ pc' = "except"

\* Lines 178-181: the start notification.
SendStart ==
    /\ pc = "send_start"
    /\ \/ /\ trace' = Append(trace, Event("send_start", TRUE, ""))
          /\ pc' = "fetch"
          /\ UNCHANGED err
       \/ /\ trace' = Append(trace, Event("send_start", FALSE, ""))
          /\ Raise("ConnectionError")
    /\ UNCHANGED <<call, config, world, runs, runLocals, i, chat_id, paper_id, paper,
                   markdown_content, ghost>>

\* Line 184: fetch_arxiv_paper; next() on an empty result raises StopIteration.
Fetch ==
    /\ pc = "fetch"
    /\ \/ /\ trace' = Append(trace, Event("fetch", TRUE, ""))
          /\ paper' = PaperOf(paper_id)
          /\ pc' = "generate"
          /\ UNCHANGED err
       \/ /\ \E e \in {"StopIteration", "HTTPError"} :
                /\ trace' = Append(trace, Event("fetch", FALSE, e))
                /\ Raise(e)
          /\ UNCHANGED paper
    /\ UNCHANGED <<call, config, world, runs, runLocals, i, chat_id, paper_id,
                   markdown_content, ghost>>

\* Lines 189-192: generate_summary and create_markdown_summary.  Without a
\* key the generation request is refused.
Generate ==
    /\ pc = "generate"
    /\ \/ /\ GEMINI_API_KEY # None
          /\ \E text \in SummaryTexts :
                markdown_content' = create_markdown_summary(paper, text, today)
          /\ trace' = Append(trace, Event("generate", TRUE, ""))
          /\ pc' = "save_file"
          /\ UNCHANGED err
       \/ /\ trace' = Append(trace, Event("generate", FALSE, "GenerationError"))
          /\ Raise("GenerationError")
          /\ UNCHANGED markdown_content
    /\ UNCHANGED <<call, config, world, runs, runLocals, i, chat_id, paper_id, paper,
                   ghost>>

\* save_summary_to_file with its error ignored: on to the ledger either way
SaveSummary_ignore_error ==
    /\ pc = "save_file"
    /\ \/ /\ files' = save_summary_to_file(files, paper_id, markdown_content)
          /\ trace' = Append(trace, Event("write", TRUE, ""))
       \/ /\ trace' = Append(trace, Event("write", FALSE, "OSError"))
          /\ UNCHANGED files
    /\ pc' = "record"
    /\ UNCHANGED <<call, config, inbox, ledgerFile, today, runs, runLocals, i,
                   msgLocals, ghost>>

\* Line 195: save_summary_to_file.
SaveSummary ==
    /\ pc = "save_file"
    /\ \/ /\ files' = save_summary_to_file(files, paper_id, markdown_content)
          /\ trace' = Append(trace, Event("write", TRUE, ""))
          /\ pc' = "record"
          /\ UNCHANGED err
       \/ /\ trace' = Append(trace, Event("write", FALSE, "OSError"))
          /\ Raise("OSError")
          /\ UNCHANGED files
    /\ UNCHANGED <<call, config, inbox, ledgerFile, today, runs, runLocals, i,
                   chat_id, paper_id, paper, markdown_content, ghost>>

\* Line 199: save_processed_paper.
SaveProcessed ==
    /\ pc = "record"
    /\ \/ /\ ledgerFile' = save_processed_paper(ledgerFile, paper_id)
          /\ succeeded' = succeeded \cup {paper_id}
          /\ trace' = Append(trace, Event("record", TRUE, ""))
          /\ pc' = "send_success"
          /\ UNCHANGED err
       \/ /\ trace' = Append(trace, Event("record", FALSE, "OSError"))
          /\ Raise("OSError")
          /\ UNCHANGED <<ledgerFile, succeeded>>
    /\ UNCHANGED <<call, config, inbox, files, today, runs, runLocals, i,
                   chat_id, paper_id, paper, markdown_content, ledger0, files0>>

\* Lines 202-208: the success notification, then the next iteration.
SendSuccess ==
    /\ pc = "send_success"
    /\ \/ /\ trace' = Append(trace, Event("send_success", TRUE, ""))
          /\ pc' = "loop"
          /\ i' = i + 1
          /\ UNCHANGED err
       \/ /\ trace' = Append(trace, Event("send_success", FALSE, ""))
          /\ Raise("ConnectionError")
          /\ UNCHANGED i
    /\ UNCHANGED <<call, config, world, runs, runLocals, chat_id, paper_id, paper,
                   markdown_content, ghost>>

\* Lines 210-215: the handler sends the failure notification with str(e).
\* The send is not guarded: when it raises, the exception leaves the loop.
SendFailure ==
    /\ pc = "except"
    /\ \/ /\ trace' = Append(trace, Event("send_failure", TRUE, err))
          /\ pc' = "loop"
          /\ i' = i + 1
       \/ /\ trace' = Append(trace, Event("send_failure", FALSE, err))
          /\ pc' = "crashed"
          /\ UNCHANGED i
    /\ UNCHANGED <<call, config, world, runs, runLocals, msgLocals, ghost>>

\* Lines 217-220: the loop is over.
Finish ==
    /\ pc = "loop"
    /\ i > Len(updates)
    /\ pc' = "done"
    /\ UNCHANGED <<call, config, world, runs, runLocals, i, msgLocals, trace, ghost>>

Next ==
    \/ Arrive
    \/ Tick
    \/ StartRun
    \/ NextUpdate
    \/ SendStart
    \/ Fetch
    \/ Generate
    \/ SaveSummary
    \/ SaveProcessed
    \/ SendSuccess
    \/ SendFailure
    \/ Finish

Spec == Init /\ [][Next]_vars

\* ------------------------------------------------------------------------
\* extract_arxiv_id on its own: any text made of a few pieces
\* ------------------------------------------------------------------------
Https == <<"h", "t", "t", "p", "s", ":", "/", "/">>
ExampleText == Https \o AbsPrefix \o IdAChars

\* pieces of text: a link to the abstract of A, a link to the PDF of B, the
\* bare identifier of A, a digit, a dot
Chunks ==
    { AbsPrefix \o IdAChars, PdfPrefix \o IdBChars, IdAChars, <<"7">>, <<".">> }

RECURSIVE Concats(_)
Concats(n) ==
    IF n = 0 THEN {<<>>}
    ELSE LET shorter == Concats(n - 1)
         IN  shorter \cup {t \o c : t \in shorter, c \in Chunks}

ExtractTexts == Concats(MaxParts) \cup {ExampleText}

InitExtract ==
    /\ TELEGRAM_BOT_TOKEN = "token"
    /\ TELEGRAM_CHAT_ID = "1"
    /\ GEMINI_API_KEY = "key"
    /\ InitPipeline
    /\ extract_text \in ExtractTexts
    /\ extract_result = NotCalled

\* the call extract_arxiv_id(text)
Extract ==
    /\ extract_result = NotCalled
    /\ extract_result' = extract_arxiv_id(extract_text)
    /\ UNCHANGED <<config, world, runs, pc, runLocals, i, msgLocals, trace,
                   ghost, extract_text>>

NextExtract == Extract

SpecExtract == InitExtract /\ [][NextExtract]_vars


\* ------------------------------------------------------------------------
\* Vocabulary of the properties
\* ------------------------------------------------------------------------
Ledger == load_processed_papers(ledgerFile)

Processing ==
    pc \in {"send_start", "fetch", "generate", "save_file", "record",
            "send_success", "except"}

\* the handling of the message that `trace' describes is over
MessageOver == pc \in {"loop", "done", "crashed"}

HasEvent(op, ok) == \E k \in DOMAIN trace : trace[k].op = op /\ trace[k].ok = ok
Called(op) == \E k \in DOMAIN trace : trace[k].op = op

Notifications == {"send_start", "send_success", "send_failure"}

Count(id, list) == Cardinality({k \in DOMAIN list : list[k] = id})

IsPrefix(s, t) == Len(s) <= Len(t) /\ \A k \in DOMAIN s : s[k] = t[k]

ConfigAbsent ==
    \/ TELEGRAM_BOT_TOKEN = None
    \/ TELEGRAM_CHAT_ID = None
    \/ GEMINI_API_KEY = None

\* the update is a message of another chat than the configured one
Foreign(u) == u.has_message /\ str(u.chat_id) # TELEGRAM_CHAT_ID

\* what extract_arxiv_id returns for each text of the inbox
ExtractedId == [t \in InboxTexts |-> extract_arxiv_id(t)]

\* no message of the configured chat carries an identifier that the ledger
\* loaded at the start of the run lacks
NoNewMessage ==
    \A k \in DOMAIN updates :
        (updates[k].has_message /\ str(updates[k].chat_id) = TELEGRAM_CHAT_ID)
            => ExtractedId[updates[k].text] \in {None} \cup Range(processed_papers)

\* ------------------------------------------------------------------------
\* C1.  Dedup: the fetcher is never called for an identifier that is in the
\* ledger at the moment its message is handled, whether it was there when
\* the run started or was recorded earlier in the same run.
\* ------------------------------------------------------------------------
C1_NeverFetchLedgered ==
    Called("fetch") => paper_id \notin Range(load_processed_papers(ledger0))

\* ------------------------------------------------------------------------
\* C2.  Any failure of a message that passed the filter sends a failure
\* notification with the error reason and leaves the ledger without the
\* message's identifier, so that a later run attempts the message again.
\* ------------------------------------------------------------------------
C2_FailureLeavesLedgerWithout ==
    (Processing /\ err # "") \/ Called("send_failure")
        => /\ paper_id \notin Range(Ledger)
           /\ MessageOver =>
                /\ Called("send_failure")
                /\ trace[Len(trace)].reason = err

\* ------------------------------------------------------------------------
\* C3.  When fetch_arxiv_paper fails for a message, exactly the failure
\* notification for that identifier is sent to the channel after it, no
\* summary file is written and the ledger file is the same after the
\* message as before it.
\* ------------------------------------------------------------------------
C3_FetchFailure ==
    HasEvent("fetch", FALSE)
        => /\ ledgerFile = ledger0
           /\ files = files0
           /\ ~Called("write") /\ ~Called("record") /\ ~Called("send_success")
           /\ trace[1].op = "send_start" /\ trace[2].op = "fetch"
           /\ MessageOver =>
                /\ Len(trace) = 3
                /\ trace[3].op = "send_failure"
                /\ trace[3].id = paper_id
                /\ str(trace[3].chat) = TELEGRAM_CHAT_ID
                /\ trace[3].reason = trace[2].reason

C3_Witness ==
    /\ pc = "loop"
    /\ HasEvent("fetch", FALSE)
    /\ HasEvent("send_failure", TRUE)
    /\ Ledger # <<>>

C5_NoNewMessageNoOp ==
    (~NotRunning \/ pc = "done")
        => \/ /\ pc \in {"loop", "done"}
              /\ trace = <<>>
              /\ ledgerFile = ledger0
              /\ files = files0
              /\ ~new_papers_found
           \/ ~NoNewMessage

\* a finished second run over messages that an earlier run recorded
C5_Witness ==
    /\ pc = "done"
    /\ runs = 2
    /\ NoNewMessage
    /\ \E k \in DOMAIN updates :
          /\ updates[k].has_message
          /\ str(updates[k].chat_id) = TELEGRAM_CHAT_ID
          /\ extract_arxiv_id(updates[k].text) \in succeeded

\* ------------------------------------------------------------------------
\* C6.  Error isolation: a failure at any step of one message, a failed
\* notification send included, never stops the run; the run always reaches
\* the end of the update list.
\* ------------------------------------------------------------------------
C6_RunNeverAborted == pc # "crashed"

\* ------------------------------------------------------------------------
\* C7.  When the bot token, the channel id or the generation key is absent,
\* the run fails at startup, before the inbox is polled and before any
\* message is filtered, fetched or notified.
\* ------------------------------------------------------------------------
C7_FailFast == ConfigAbsent => pc \in {"idle", "startup_error"}

\* ------------------------------------------------------------------------
\* C8.  The summary file of an identifier is written at most once, and once
\* written its content is never changed by a later message or run.
\* ------------------------------------------------------------------------
C8_WrittenOnce ==
    [][ /\ \A id \in DOMAIN files : id \in DOMAIN files' /\ files'[id] = files[id]
        /\ (pc = "save_file" /\ pc' = "record") => paper_id \notin DOMAIN files
      ]_vars

C10_ForeignChatNoEffect ==
    /\ Processing => ~Foreign(updates[i])
    /\ (pc = "loop" /\ i > 1 /\ Foreign(updates[i - 1]))
          => /\ trace = <<>>
             /\ ledgerFile = ledger0
             /\ files = files0
             /\ paper_id = None
    /\ \A k \in DOMAIN trace :
          trace[k].op \in Notifications => str(trace[k].chat) = TELEGRAM_CHAT_ID

\* a message of another chat that carries an identifier was just passed over
\* while a chat is configured
C10_Witness ==
    /\ pc = "loop" /\ i > 1
    /\ TELEGRAM_CHAT_ID # None
    /\ Foreign(updates[i - 1])
    /\ extract_arxiv_id(updates[i - 1].text) # None


\* ------------------------------------------------------------------------
\* C11.  extract_arxiv_id applies its patterns in a fixed priority order
\* (abs URL, pdf URL, bare 4-digit.4-or-5-digit form): for every text it
\* returns the leftmost match of the highest-priority pattern that matches
\* anywhere in the text, wherever lower-priority matches occur, and none
\* exactly when no pattern matches; for "https://arxiv.org/abs/2301.01234"
\* it returns 2301.01234.
\* ------------------------------------------------------------------------

\* the three forms in the priority order the claim gives
Priority ==
    << [prefix |-> AbsPrefix, before |-> Rep(1, FALSE, 0), after |-> Rep(1, FALSE, 0)],
       [prefix |-> PdfPrefix, before |-> Rep(1, FALSE, 0), after |-> Rep(1, FALSE, 0)],
       [prefix |-> <<>>, before |-> Rep(4, TRUE, 4), after |-> Rep(4, TRUE, 5)] >>

AllDigits(t, a, b) == \A j \in a..b : IsDigit(t[j])
InRep(rep, n) == n >= rep.lo /\ (rep.bounded => n <= rep.hi)

\* the form matches the stretch p..e of the text, the dot standing at d
MatchesStretch(form, t, p, d, e) ==
    LET a == p + Len(form.prefix)
    IN  /\ a < d /\ d < e /\ e <= Len(t)
        /\ t[d] = "."
        /\ SubSeq(t, p, a - 1) = form.prefix
        /\ InRep(form.before, d - a) /\ AllDigits(t, a, d - 1)
        /\ InRep(form.after, e - d) /\ AllDigits(t, d + 1, e)

\* where the dot of a match that starts at p and ends at e can stand
DotRange(form, p, e) ==
    LET a == p + Len(form.prefix)
    IN  (a + form.before.lo)..(IF form.before.bounded THEN a + form.before.hi ELSE e)

\* the ends of the matches of the form that start at p
MatchEnds(form, t, p) ==
    IF \/ p + Len(form.prefix) - 1 > Len(t)
       \/ SubSeq(t, p, p + Len(form.prefix) - 1) # form.prefix
    THEN {}
    ELSE {e \in p..Len(t) :
            \E d \in DotRange(form, p, e) : MatchesStretch(form, t, p, d, e)}

MatchStarts(form, t) == {p \in DOMAIN t : MatchEnds(form, t, p) # {}}

Least(S) == CHOOSE x \in S : \A y \in S : x <= y
Greatest(S) == CHOOSE x \in S : \A y \in S : x >= y

\* group 1 of the leftmost match of the form; the repetitions are greedy, so
\* of the matches that start there it is the longest
LeftmostGroup(form, t) ==
    LET p == Least(MatchStarts(form, t))
    IN  SubSeq(t, p + Len(form.prefix), Greatest(MatchEnds(form, t, p)))

MatchingForms(t) == {n \in DOMAIN Priority : MatchStarts(Priority[n], t) # {}}

ExpectedId(t) ==
    IF MatchingForms(t) = {} THEN None
    ELSE Join(LeftmostGroup(Priority[Least(MatchingForms(t))], t))

C11_PriorityLeftmost ==
    extract_result # NotCalled
        => /\ extract_result = ExpectedId(extract_text)
           /\ extract_result = None <=> MatchingForms(extract_text) = {}
           /\ extract_text = ExampleText => extract_result = "2301.01234"

\* a PDF link to B stands left of an abstract link to A, and A is returned
C11_Witness ==
    /\ extract_text = (PdfPrefix \o IdBChars) \o (AbsPrefix \o IdAChars)
    /\ extract_result = IdA


\* ------------------------------------------------------------------------
\* C12.  Whenever summary generation succeeds, the document produced by
\* create_markdown_summary contains all five section headers, for every text
\* the generation service may return.
\* ------------------------------------------------------------------------
ContainsLine(doc, line) ==
    \E k \in DOMAIN DocumentLines(doc) : DocumentLines(doc)[k] = line

C12_FiveHeaders ==
    HasEvent("generate", TRUE)
        => \A k \in DOMAIN SectionHeaders :
              ContainsLine(markdown_content, SectionHeaders[k])


\* ------------------------------------------------------------------------
\* C13.  When the ledger file does not exist, load_processed_papers returns
\* the empty ledger without raising, so a first run treats every identifier
\* as new, and the first successful save creates the ledger file containing
\* exactly that one identifier.
\* ------------------------------------------------------------------------
C13_MissingLedger ==
    /\ ~ledgerFile.exists => load_processed_papers(ledgerFile) = <<>>
    /\ (~NotRunning /\ ~ledger0.exists) => processed_papers = <<>>
    /\ (/\ pc = "loop" /\ i > 1
        /\ ~ledger0.exists
        /\ updates[i - 1].has_message
        /\ str(updates[i - 1].chat_id) = TELEGRAM_CHAT_ID
        /\ ExtractedId[updates[i - 1].text] # None)
          => /\ trace # <<>>
             /\ trace[1].op = "send_start"
             /\ trace[1].id = ExtractedId[updates[i - 1].text]
    /\ (HasEvent("record", TRUE) /\ ~ledger0.exists)
          => ledgerFile = FileOf(<<paper_id>>)

\* the first save has created the ledger file
C13_Witness ==
    /\ HasEvent("record", TRUE)
    /\ ~ledger0.exists
    /\ ledgerFile.exists

\* ------------------------------------------------------------------------
\* C14.  Persist before record: each identifier that a run has added to the
\* ledger has a summary file that was written earlier in the processing of
\* the same message, after fetch and generation succeeded; the ledger is
\* never appended for an identifier whose file write did not complete.
\* ------------------------------------------------------------------------
C14_PersistBeforeRecord ==
    /\ \A id \in Range(Ledger) : id \in DOMAIN files
    /\ HasEvent("write", FALSE) => ledgerFile = ledger0 /\ ~Called("record")
    /\ (HasEvent("record", TRUE) \/ ledgerFile # ledger0)
          => /\ Len(trace) >= 5
             /\ trace[2].op = "fetch" /\ trace[2].ok
             /\ trace[3].op = "generate" /\ trace[3].ok
             /\ trace[4].op = "write" /\ trace[4].ok /\ trace[4].id = paper_id
             /\ trace[5].op = "record" /\ trace[5].ok /\ trace[5].id = paper_id
             /\ paper_id \in DOMAIN files
             /\ files[paper_id] = markdown_content
             /\ ledgerFile = save_processed_paper(ledger0, paper_id)

\* an identifier has just been added to the ledger
C14_Witness ==
    /\ pc = "send_success"
    /\ ledgerFile # ledger0
    /\ paper_id \in DOMAIN files

\* ------------------------------------------------------------------------
\* C15.  Notification protocol: for every message that passes the dedup
\* check the start notification is sent before the fetch is issued, and the
\* processing ends with exactly one terminal notification, success or
\* failure, never both and never neither; a success notification is sent
\* only after the summary file is written and the identifier recorded.
\* ------------------------------------------------------------------------
TerminalSends ==
    {k \in DOMAIN trace : trace[k].op \in {"send_success", "send_failure"}}

C15_NotificationProtocol ==
    /\ Called("fetch") => trace[1].op = "send_start"
    /\ (MessageOver /\ trace # <<>>) => Cardinality(TerminalSends) = 1
    /\ Called("send_success")
          => /\ HasEvent("write", TRUE) /\ HasEvent("record", TRUE)
             /\ paper_id \in DOMAIN files
             /\ paper_id \in Range(Ledger)

====
